---------------------------- MODULE Spec2Model ----------------------------
(***************************************************************************)
(* State-machine model of the asset service of tgdrive/rclone-assets.      *)
(*                                                                         *)
(* The repository holds two generations of the service:                    *)
(*   - the content-addressed (CAS) service: src/unnamed/part_002 (and its  *)
(*     twin part_003, which differs only in logging): objects are stored   *)
(*     through rclone at hash[0:2]/hash and the catalog has a unique index *)
(*     on the hash;                                                        *)
(*   - the counter-based (legacy) service: src/main.go: files are stored   *)
(*     on a mounted file system under a shard directory chosen from the    *)
(*     asset id and a map of directory counters.                           *)
(* A deployment runs one of the two; the variable mode is fixed by Init.   *)
(* Both register the same routes: upload, list and delete behind the       *)
(* X-API-Key check (APIKeyAuth), download open to all.                     *)
(*                                                                         *)
(* Spec runs uploads, downloads, deletes and default listings of all       *)
(* clients against each other; SpecList runs one client's listings, with   *)
(* every kind of limit and offset, against catalogs left by earlier        *)
(* uploads that nobody writes to.                                          *)
(*                                                                         *)
(* Every catalog query, every backend or file-system call is one atomic    *)
(* step; the requests of the processes in Procs interleave between them.   *)
(* md5 is modelled as a collision-free digest (Hash), xid.New as a         *)
(* counter of fresh ids.                                                   *)
(***************************************************************************)
EXTENDS Integers, Sequences, FiniteSets, TLC

\* ------------------------------------------------------------------ bounds
\* MAX_UPLOAD_SIZE is 50 << 20 in the source; scaled down here.
MAX_UPLOAD_SIZE == 1
\* FILES_PER_DIR is 5000 in the source; scaled down here.
FILES_PER_DIR == 1
\* The source probes bucket_0 .. bucket_99; scaled down here.
NumBuckets == 1
\* The number of ids xid.New hands out in one run of the model.
MaxIds == 2
\* The number of injected backend / catalog failures in one run.
MaxFaults == 1

Procs == {"p1", "p2"}
Byte == {0}
Modes == {"cas", "counter"}

\* ------------------------------------------------------------------ values
RECURSIVE SeqsUpTo(_)
SeqsUpTo(n) ==
    IF n = 0 THEN {<<>>}
    ELSE LET S == SeqsUpTo(n - 1)
         IN  S \cup {Append(s, b) : s \in {t \in S : Len(t) = n - 1}, b \in Byte}

\* The request bodies a client may send: up to one byte over the limit.
Bodies == SeqsUpTo(MAX_UPLOAD_SIZE + 1)

\* http.MaxBytesReader: the bytes the handler gets to read, and whether the
\* read ends with the "request body too large" error.
MaxBytesRead(body) ==
    IF Len(body) > MAX_UPLOAD_SIZE THEN SubSeq(body, 1, MAX_UPLOAD_SIZE) ELSE body

MaxBytesError(body) == Len(body) > MAX_UPLOAD_SIZE

HexDigit(n) == IF n < 10 THEN ToString(n) ELSE "f"

\* hex.EncodeToString(md5(data)): a fixed-length string of hex digits, one
\* digest per content (no collisions): the length, then the bytes, padded.
Hash(data) ==
    <<HexDigit(Len(data))>> \o
    [i \in 1..(MAX_UPLOAD_SIZE + 1) |-> IF i <= Len(data) THEN HexDigit(data[i]) ELSE "f"]

\* mimetype.Detect(header).Extension(): decided by the first bytes only.
Extension(data) ==
    IF Len(data) = 0 THEN ".txt" ELSE IF data[1] = 0 THEN ".bin" ELSE ".txt"

NoAsset == [id |-> 0]
NoHolder == "none"
BadId == 0
\* A request: its input (op, key, body, id, ext) and what was true when it began:
\* pre, the records holding the body's digest; late, whether a delete of the
\* id had returned success; after, whether an upload had returned the id.
\* limit and offset are the query parameters of a list request, as sent.
NoReq == [op |-> "none", key |-> "", body |-> <<>>, id |-> BadId, ext |-> "",
          limit |-> <<>>, offset |-> <<>>,
          pre |-> {}, late |-> FALSE, after |-> FALSE]
NoLoc == [assetID |-> 0, hash |-> <<>>, size |-> 0, ext |-> "", asset |-> NoAsset, dir |-> <<>>,
          limit |-> 0, offset |-> 0, totalCount |-> 0]
Response(status, asset, deduped, bytes) ==
    [status |-> status, asset |-> asset, deduped |-> deduped, bytes |-> bytes]
NoResp == Response(0, NoAsset, FALSE, <<>>)
\* ErrorResponse(code, message): the JSON body of every failure
ErrorResponse(code) == Response(code, NoAsset, FALSE, <<>>)

\* ------------------------------------------------------------------- state
VARIABLES
    mode,              \* which service this deployment runs: "cas" or "counter"
    catalog,           \* the assets table (gorm): a set of Asset records
    backend,           \* the rclone remote (s.fs): a set of [key, data] objects
    cache,             \* the VFS cache (s.vfs): a set of mirrored [key, data]
    files,             \* legacy: the files under STORAGE_PATH: [dir, name, data]
    directoryCounter,  \* legacy: the in-memory map from directory to count
    nextId,            \* the next id xid.New returns
    now,               \* the clock that stamps created_at (time.Now() at Create)
    mu,                \* legacy: the request that holds s.mu, NoHolder when free
    pc,                \* each request's position in its handler
    req,               \* each request's input
    loc,               \* each request's local variables
    resp,              \* each request's response
    faults,            \* the number of failures injected so far
    eff,               \* the effects the current request of a process has made
    deletedOK,         \* the ids whose delete request returned success
    tempFiles          \* cas: the temp files of uploads, each with its request

vars == <<mode, catalog, backend, cache, files, directoryCounter, nextId, now,
          mu, pc, req, loc, resp, faults, eff, deletedOK, tempFiles>>

\* ----------------------------------------------------------------- catalog
\* Mutant: the existence check never finds a record.
FindByHash_Never(cat, hash) == {}

\* s.db.Where("hash = ?", fileHash).First(&existingAsset)
FindByHash(cat, hash) == {r \in cat : r.hash = hash}

\* Mutant: the query has lost its condition on the id.
getAssetByID_AnyRow(cat, id) == cat

\* getAssetByID: s.db.First(&asset, "id = ?", id)
getAssetByID(cat, id) == {r \in cat : r.id = id}

\* Mutant: the hash column has a plain index; only the primary key is checked.
CreateConflict_PrimaryKeyOnly(cat, asset) == \E r \in cat : r.id = asset.id

\* The constraints s.db.Create checks: the primary key, and in the
\* content-addressed service the unique index idx_assets_hash.
CreateConflict(cat, asset) ==
    \/ \E r \in cat : r.id = asset.id
    \/ mode = "cas" /\ \E r \in cat : r.hash = asset.hash

\* Mutant: the insert replaces the rows that hold the same digest (an upsert).
saveAssetMetadata_Upsert(cat, asset) ==
    {r \in cat : r.hash # asset.hash} \cup {asset}

\* saveAssetMetadata: s.db.Create(asset), once the constraints hold
saveAssetMetadata(cat, asset) == cat \cup {asset}

\* Mutant: the delete statement matches no row.
deleteAssetMetadata_NoRow(cat, id) == cat

\* deleteAssetMetadata: s.db.Delete(&Asset{}, "id = ?", id)
deleteAssetMetadata(cat, id) == {r \in cat : r.id # id}

\* ----------------------------------------------------------------- backend
\* Mutant: the object is stored flat, under the hash alone.
getStoragePath_Flat(hash) == hash

\* Mutant: the key depends on when it is computed.
getStoragePath_ByTime(hash) == <<ToString(now), "/">> \o hash

\* getStoragePath: filepath.Join(hash[0:2], hash)
getStoragePath(hash) ==
    IF Len(hash) < 2 THEN hash ELSE SubSeq(hash, 1, 2) \o <<"/">> \o hash

\* s.fs.Put: the object at the key is created or replaced
Put(objs, key, data) == {o \in objs : o.key # key} \cup {[key |-> key, data |-> data]}

\* s.fs.NewObject: the object at the key, if any
NewObject(objs, key) == {o \in objs : o.key = key}

\* obj.Remove
Remove(objs, key) == {o \in objs : o.key # key}

\* -------------------------------------------------------------------- auth
\* The configured key (never empty: the service exits at start when it is)
\* and the X-API-Key headers a client may send; "" is a request without one.
API_KEY == "k"
Keys == {"", "k", "x"}

\* Mutant: a request without the header passes.
APIKeyAuth_MissingPasses(apiKey) == apiKey = API_KEY \/ apiKey = ""

\* APIKeyAuth: the header is compared with the configured key
APIKeyAuth(apiKey) == apiKey = API_KEY

\* ----------------------------------------------------------------- helpers
Respond(p, r) ==
    /\ pc' = [pc EXCEPT ![p] = "done"]
    /\ resp' = [resp EXCEPT ![p] = r]

Goto(p, label) ==
    /\ pc' = [pc EXCEPT ![p] = label]
    /\ UNCHANGED resp

Effect(p, e) == eff' = [eff EXCEPT ![p] = @ \cup {e}]

\* A failure of the catalog, the backend or the file system hits request p.
Fault(p) ==
    /\ faults < MaxFaults
    /\ faults' = faults + 1
    /\ Effect(p, "fault")

\* The ids that uploads whose response is still held have returned.
Returned == {resp[p].asset.id : p \in {q \in Procs : /\ pc[q] = "done"
                                                     /\ req[q].op = "upload"
                                                     /\ resp[q].status \in {200, 201}}}

\* Mutant: the record is looked up before the id is checked.
LookupByID_LookupFirst(p, id, label) ==
    \/ /\ Fault(p)
       /\ Respond(p, ErrorResponse(500))
       /\ UNCHANGED loc
    \/ /\ getAssetByID(catalog, id) = {}
       /\ Respond(p, ErrorResponse(404))
       /\ UNCHANGED <<loc, faults, eff>>
    \/ /\ \E asset \in getAssetByID(catalog, id) :
             loc' = [loc EXCEPT ![p] = [NoLoc EXCEPT !.asset = asset]]
       /\ Goto(p, label)
       /\ UNCHANGED <<faults, eff>>

\* xid.FromString and getAssetByID at the head of download and delete
\* (part_002 435-449, 497-512; main.go 405-418, 434-448): 400 for a malformed
\* id, 500 when the query fails, 404 when there is no record; otherwise the
\* handler goes on with the record.
LookupByID(p, id, label) ==
    \/ /\ id = BadId
       /\ Respond(p, ErrorResponse(400))
       /\ UNCHANGED <<loc, faults, eff>>
    \/ /\ id # BadId
       /\ Fault(p)
       /\ Respond(p, ErrorResponse(500))
       /\ UNCHANGED loc
    \/ /\ id # BadId
       /\ getAssetByID(catalog, id) = {}
       /\ Respond(p, ErrorResponse(404))
       /\ UNCHANGED <<loc, faults, eff>>
    \/ /\ id # BadId
       /\ \E asset \in getAssetByID(catalog, id) :
             loc' = [loc EXCEPT ![p] = [NoLoc EXCEPT !.asset = asset]]
       /\ Goto(p, label)
       /\ UNCHANGED <<faults, eff>>

Init ==
    /\ mode \in Modes
    /\ catalog = {}
    /\ backend = {}
    /\ cache = {}
    /\ files = {}
    /\ directoryCounter = [d \in {} |-> 0]
    /\ nextId = 1
    /\ now = 1
    /\ mu = NoHolder
    /\ pc = [p \in Procs |-> "idle"]
    /\ req = [p \in Procs |-> NoReq]
    /\ loc = [p \in Procs |-> NoLoc]
    /\ resp = [p \in Procs |-> NoResp]
    /\ faults = 0
    /\ eff = [p \in Procs |-> {}]
    /\ deletedOK = {}
    /\ tempFiles = {}

\* ------------------------------------------- content-addressed: upload
\* part_002 296: os.CreateTemp, and what the handler copies into the file
CreateTemp(tmp, p, data) == tmp \cup {[owner |-> p, data |-> data]}

\* os.Remove(tempFile.Name())
RemoveTemp(tmp, p) == {f \in tmp : f.owner # p}

\* Mutant: the temp file is removed at the end of the handler only, not by
\* a deferred call.
Deferred_OnlyAtTheEnd(p, tmp) ==
    tempFiles' = IF pc'[p] = "done" /\ resp'[p].status = 201
                 THEN RemoveTemp(tmp, p)
                 ELSE tmp

\* part_002 302-303: defer os.Remove(tempFile.Name()) and defer
\* tempFile.Close() run when the handler returns, on whichever path; tmp is
\* the temp files as the step leaves them.
Deferred(p, tmp) ==
    tempFiles' = IF pc'[p] = "done" THEN RemoveTemp(tmp, p) ELSE tmp

\* part_002 292-331: the body is read through http.MaxBytesReader into the
\* temp file while md5 runs over it; then the id is drawn.
CasUploadRead(p, body) ==
    /\ mode = "cas"
    /\ pc[p] = "idle"
    /\ \E apiKey \in Keys :
          /\ APIKeyAuth(apiKey)
          /\ req' = [req EXCEPT ![p] = [NoReq EXCEPT !.op = "upload", !.key = apiKey,
                                        !.body = body,
                                        !.pre = {r \in catalog : r.hash = Hash(body)}]]
    /\ IF MaxBytesError(body)
       THEN /\ Respond(p, ErrorResponse(500))
            /\ UNCHANGED <<loc, nextId>>
       ELSE /\ nextId <= MaxIds
            /\ loc' = [loc EXCEPT ![p] = [NoLoc EXCEPT !.assetID = nextId,
                                          !.hash = Hash(body),
                                          !.size = Len(body),
                                          !.ext = Extension(body)]]
            /\ nextId' = nextId + 1
            /\ Goto(p, "u_lookup")
    /\ Deferred(p, CreateTemp(tempFiles, p, MaxBytesRead(body)))
    /\ UNCHANGED <<mode, now, mu, catalog, backend, cache, files, directoryCounter,
                   faults, eff, deletedOK>>

\* Mutant: the object is put before the existence check (upload first, then
\* deduplicate).
CasUploadLookup_PutFirst(p) ==
    /\ mode = "cas"
    /\ pc[p] = "u_lookup"
    /\ backend' = Put(backend, getStoragePath(loc[p].hash), req[p].body)
    /\ Effect(p, "put")
    /\ LET found == FindByHash(catalog, loc[p].hash)
       IN  \/ /\ found # {}
              /\ \E existingAsset \in found :
                    Respond(p, Response(200, existingAsset, TRUE, <<>>))
           \/ /\ found = {}
              /\ Goto(p, "u_save")
    /\ Deferred(p, tempFiles)
    /\ UNCHANGED <<mode, now, mu, catalog, cache, files, directoryCounter, nextId,
                   req, loc, faults, deletedOK>>

\* part_002 333-347: the existence check; any error of the query, not only
\* "record not found", lets the upload go on.
CasUploadLookup(p) ==
    /\ mode = "cas"
    /\ pc[p] = "u_lookup"
    /\ LET found == FindByHash(catalog, loc[p].hash)
       IN  \/ /\ found # {}
              /\ \E existingAsset \in found :
                    Respond(p, Response(200, existingAsset, TRUE, <<>>))
              /\ UNCHANGED <<faults, eff>>
           \/ /\ found = {}
              /\ Goto(p, "u_put")
              /\ UNCHANGED <<faults, eff>>
           \/ /\ Fault(p)
              /\ Goto(p, "u_put")
    /\ Deferred(p, tempFiles)
    /\ UNCHANGED <<mode, now, mu, catalog, backend, cache, files, directoryCounter,
                   nextId, req, loc, deletedOK>>

\* part_002 349-365: s.fs.Put of the temp file at getStoragePath(fileHash)
CasUploadPut(p) ==
    /\ mode = "cas"
    /\ pc[p] = "u_put"
    /\ \/ /\ backend' = Put(backend, getStoragePath(loc[p].hash), req[p].body)
          /\ Effect(p, "put")
          /\ Goto(p, "u_save")
          /\ UNCHANGED faults
       \/ /\ Fault(p)
          /\ Respond(p, ErrorResponse(500))
          /\ UNCHANGED backend
    /\ Deferred(p, tempFiles)
    /\ UNCHANGED <<mode, now, mu, catalog, cache, files, directoryCounter, nextId,
                   req, loc, deletedOK>>

NewAsset(p) ==
    [id |-> loc[p].assetID,
     fileName |-> <<loc[p].assetID, loc[p].ext>>,
     size |-> loc[p].size,
     hash |-> loc[p].hash,
     createdAt |-> now]

\* Mutant: a failing insert has written the row before it reports the error.
CasUploadSave_RowThenError(p) ==
    /\ mode = "cas"
    /\ pc[p] = "u_save"
    /\ \/ /\ ~CreateConflict(catalog, NewAsset(p))
          /\ catalog' = saveAssetMetadata(catalog, NewAsset(p))
          /\ now' = now + 1
          /\ Effect(p, "insert")
          /\ Respond(p, Response(201, NewAsset(p), FALSE, <<>>))
          /\ UNCHANGED faults
       \/ /\ CreateConflict(catalog, NewAsset(p))
          /\ Effect(p, "conflict")
          /\ Respond(p, ErrorResponse(500))
          /\ UNCHANGED <<catalog, now, faults>>
       \/ /\ Fault(p)
          /\ ~CreateConflict(catalog, NewAsset(p))
          /\ catalog' = saveAssetMetadata(catalog, NewAsset(p))
          /\ now' = now + 1
          /\ Respond(p, ErrorResponse(500))
    /\ Deferred(p, tempFiles)
    /\ UNCHANGED <<mode, mu, backend, cache, files, directoryCounter, nextId,
                   req, loc, deletedOK>>

\* part_002 367-392: the insert; every error of Create, the unique index's
\* included, is answered with 500.
CasUploadSave(p) ==
    /\ mode = "cas"
    /\ pc[p] = "u_save"
    /\ \/ /\ ~CreateConflict(catalog, NewAsset(p))
          /\ catalog' = saveAssetMetadata(catalog, NewAsset(p))
          /\ now' = now + 1
          /\ Effect(p, "insert")
          /\ Respond(p, Response(201, NewAsset(p), FALSE, <<>>))
          /\ UNCHANGED faults
       \/ /\ CreateConflict(catalog, NewAsset(p))
          /\ Effect(p, "conflict")
          /\ Respond(p, ErrorResponse(500))
          /\ UNCHANGED <<catalog, now, faults>>
       \/ /\ Fault(p)
          /\ Respond(p, ErrorResponse(500))
          /\ UNCHANGED <<catalog, now>>
    /\ Deferred(p, tempFiles)
    /\ UNCHANGED <<mode, mu, backend, cache, files, directoryCounter, nextId,
                   req, loc, deletedOK>>

\* ----------------------------------------- content-addressed: download
\* part_002 432-449: the id is checked (xid.FromString), then looked up.
CasDownloadLookup(p, id) ==
    /\ mode = "cas"
    /\ pc[p] = "idle"
    /\ req' = [req EXCEPT ![p] = [NoReq EXCEPT !.op = "download", !.id = id,
                                  !.late = (id \in deletedOK),
                                  !.after = (id \in Returned)]]
    /\ LookupByID(p, id, "d_open")
    /\ UNCHANGED <<tempFiles, mode, now, mu, catalog, backend, cache, files, directoryCounter,
                   nextId, deletedOK>>

\* vfs.OpenFile on the key: the mirrored copy if there is one, otherwise the
\* backend's object, which is then mirrored.
OpenFile(key) ==
    IF NewObject(cache, key) # {} THEN NewObject(cache, key) ELSE NewObject(backend, key)

\* Mutant: every failure to open the file is answered as "not found".
CasDownloadOpen_AllNotFound(p) ==
    /\ mode = "cas"
    /\ pc[p] = "d_open"
    /\ LET remoteFilePath == getStoragePath(loc[p].asset.hash)
           fHandle == OpenFile(remoteFilePath)
       IN  \/ /\ fHandle = {}
              /\ Respond(p, ErrorResponse(404))
              /\ UNCHANGED <<cache, faults, eff>>
           \/ /\ fHandle # {}
              /\ \E o \in fHandle :
                    /\ cache' = Put(cache, o.key, o.data)
                    /\ Respond(p, Response(200, loc[p].asset, FALSE, o.data))
              /\ UNCHANGED <<faults, eff>>
           \/ /\ Fault(p)
              /\ Respond(p, ErrorResponse(404))
              /\ UNCHANGED cache
    /\ UNCHANGED <<tempFiles, mode, now, mu, catalog, backend, files, directoryCounter, nextId,
                   req, loc, deletedOK>>

\* part_002 451-492: open through the VFS, stat, stream.
CasDownloadOpen(p) ==
    /\ mode = "cas"
    /\ pc[p] = "d_open"
    /\ LET remoteFilePath == getStoragePath(loc[p].asset.hash)
           fHandle == OpenFile(remoteFilePath)
       IN  \/ /\ fHandle = {}
              /\ Respond(p, ErrorResponse(404))
              /\ UNCHANGED <<cache, faults, eff>>
           \/ /\ fHandle # {}
              /\ \E o \in fHandle :
                    /\ cache' = Put(cache, o.key, o.data)
                    /\ Respond(p, Response(200, loc[p].asset, FALSE, o.data))
              /\ UNCHANGED <<faults, eff>>
           \/ /\ Fault(p)
              /\ Respond(p, ErrorResponse(500))
              /\ UNCHANGED cache
    /\ UNCHANGED <<tempFiles, mode, now, mu, catalog, backend, files, directoryCounter, nextId,
                   req, loc, deletedOK>>

\* part_002 139-149: the VFS cache drops entries by age and by total size.
CacheEvict ==
    /\ mode = "cas"
    /\ \E o \in cache : cache' = cache \ {o}
    /\ UNCHANGED <<tempFiles, mode, now, mu, catalog, backend, files, directoryCounter, nextId,
                   pc, req, loc, resp, faults, eff, deletedOK>>

\* ------------------------------------------- content-addressed: delete
\* part_002 494-512: the id is checked, then looked up.
CasDeleteLookup(p, id) ==
    /\ mode = "cas"
    /\ pc[p] = "idle"
    /\ \E apiKey \in Keys :
          /\ APIKeyAuth(apiKey)
          /\ req' = [req EXCEPT ![p] = [NoReq EXCEPT !.op = "delete", !.key = apiKey,
                                        !.id = id]]
    /\ LookupByID(p, id, "x_meta")
    /\ UNCHANGED <<tempFiles, mode, now, mu, catalog, backend, cache, files, directoryCounter,
                   nextId, deletedOK>>

\* Mutant: a failure to delete the row is only logged; the delete goes on.
CasDeleteMeta_FailureOnlyLogged(p) ==
    /\ mode = "cas"
    /\ pc[p] = "x_meta"
    /\ \/ /\ catalog' = deleteAssetMetadata(catalog, req[p].id)
          /\ Effect(p, "deleteRow")
          /\ UNCHANGED faults
       \/ /\ Fault(p)
          /\ UNCHANGED catalog
    /\ Goto(p, "x_object")
    /\ UNCHANGED <<tempFiles, mode, now, mu, backend, cache, files, directoryCounter, nextId,
                   req, loc, deletedOK>>

\* part_002 517-522: the row is deleted first.
CasDeleteMeta(p) ==
    /\ mode = "cas"
    /\ pc[p] = "x_meta"
    /\ \/ /\ catalog' = deleteAssetMetadata(catalog, req[p].id)
          /\ Effect(p, "deleteRow")
          /\ Goto(p, "x_object")
          /\ UNCHANGED faults
       \/ /\ Fault(p)
          /\ Respond(p, ErrorResponse(500))
          /\ UNCHANGED catalog
    /\ UNCHANGED <<tempFiles, mode, now, mu, backend, cache, files, directoryCounter, nextId,
                   req, loc, deletedOK>>

\* Mutant: a failure to remove the object fails the delete.
CasDeleteObject_FailureIs500(p) ==
    /\ mode = "cas"
    /\ pc[p] = "x_object"
    /\ LET remoteFilePath == getStoragePath(loc[p].asset.hash)
       IN  \/ /\ NewObject(backend, remoteFilePath) # {}
              /\ backend' = Remove(backend, remoteFilePath)
              /\ Effect(p, "remove")
              /\ Respond(p, Response(200, NoAsset, FALSE, <<>>))
              /\ deletedOK' = deletedOK \cup {req[p].id}
              /\ UNCHANGED faults
           \/ /\ NewObject(backend, remoteFilePath) = {}
              /\ Respond(p, Response(200, NoAsset, FALSE, <<>>))
              /\ deletedOK' = deletedOK \cup {req[p].id}
              /\ UNCHANGED <<backend, eff, faults>>
           \/ /\ Fault(p)
              /\ Respond(p, ErrorResponse(500))
              /\ UNCHANGED <<backend, deletedOK>>
    /\ UNCHANGED <<tempFiles, mode, now, mu, catalog, cache, files, directoryCounter, nextId,
                   req, loc>>

\* part_002 524-549: the object at the key of the deleted record's hash is
\* removed, with no look at the catalog; a failure is only logged.
CasDeleteObject(p) ==
    /\ mode = "cas"
    /\ pc[p] = "x_object"
    /\ LET remoteFilePath == getStoragePath(loc[p].asset.hash)
       IN  \/ /\ NewObject(backend, remoteFilePath) # {}
              /\ backend' = Remove(backend, remoteFilePath)
              /\ Effect(p, "remove")
              /\ UNCHANGED faults
           \/ /\ NewObject(backend, remoteFilePath) = {}
              /\ UNCHANGED <<backend, eff, faults>>
           \/ /\ Fault(p)
              /\ UNCHANGED backend
    /\ Respond(p, Response(200, NoAsset, FALSE, <<>>))
    /\ deletedOK' = deletedOK \cup {req[p].id}
    /\ UNCHANGED <<tempFiles, mode, now, mu, catalog, cache, files, directoryCounter, nextId,
                   req, loc>>

\* ------------------------------------------------- counter-based: placement
\* The number of shard directories (256 with DIR_SHARDING_DEPTH = 1); scaled.
NumShards == 1

\* main.go 233-241: the first DIR_SHARDING_DEPTH hex pairs of md5(assetID)
BasePath(assetID) == <<"s" \o ToString(assetID % NumShards)>>

BucketPath(basePath, i) == Append(basePath, "bucket_" \o ToString(i))

\* sync.Map.LoadOrStore(path, new(atomic.Int64))
LoadOrStore(counters, path) ==
    IF path \in DOMAIN counters THEN counters ELSE counters @@ (path :> 0)

Add(counters, path, n) == [counters EXCEPT ![path] = @ + n]

\* Mutant: a bucket at capacity still takes a file (<= for <).
RECURSIVE ProbeBuckets_LessOrEqual(_, _, _)
ProbeBuckets_LessOrEqual(counters, basePath, i) ==
    IF i >= NumBuckets
    THEN [path |-> basePath, counters |-> Add(counters, basePath, 1)]
    ELSE LET newPath == BucketPath(basePath, i)
             c == LoadOrStore(counters, newPath)
         IN  IF c[newPath] <= FILES_PER_DIR
             THEN [path |-> newPath, counters |-> Add(c, newPath, 1)]
             ELSE ProbeBuckets_LessOrEqual(c, basePath, i + 1)

\* Mutant: the fall-through returns the base path without counting the file.
RECURSIVE ProbeBuckets_FallThroughUncounted(_, _, _)
ProbeBuckets_FallThroughUncounted(counters, basePath, i) ==
    IF i >= NumBuckets
    THEN [path |-> basePath, counters |-> counters]
    ELSE LET newPath == BucketPath(basePath, i)
             c == LoadOrStore(counters, newPath)
         IN  IF c[newPath] < FILES_PER_DIR
             THEN [path |-> newPath, counters |-> Add(c, newPath, 1)]
             ELSE ProbeBuckets_FallThroughUncounted(c, basePath, i + 1)

\* main.go 249-259: the buckets are probed in order from bucket i; each probed
\* bucket gets a counter; the first one below FILES_PER_DIR is taken.
RECURSIVE ProbeBuckets(_, _, _)
ProbeBuckets(counters, basePath, i) ==
    IF i >= NumBuckets
    THEN [path |-> basePath, counters |-> Add(counters, basePath, 1)]
    ELSE LET newPath == BucketPath(basePath, i)
             c == LoadOrStore(counters, newPath)
         IN  IF c[newPath] < FILES_PER_DIR
             THEN [path |-> newPath, counters |-> Add(c, newPath, 1)]
             ELSE ProbeBuckets(c, basePath, i + 1)

\* Mutant: the base directory overflows one file late (> for >=).
getSmartStoragePath_OffByOne(counters, assetID) ==
    LET basePath == BasePath(assetID)
        c == LoadOrStore(counters, basePath)
    IN  IF c[basePath] > FILES_PER_DIR
        THEN ProbeBuckets(c, basePath, 0)
        ELSE [path |-> basePath, counters |-> Add(c, basePath, 1)]

\* Mutant: a file placed in a bucket is counted in the base shard as well.
getSmartStoragePath_CountsBaseToo(counters, assetID) ==
    LET basePath == BasePath(assetID)
        c == LoadOrStore(counters, basePath)
    IN  IF c[basePath] >= FILES_PER_DIR
        THEN LET placed == ProbeBuckets(c, basePath, 0)
             IN  [path |-> placed.path,
                  counters |-> Add(placed.counters, basePath, 1)]
        ELSE [path |-> basePath, counters |-> Add(c, basePath, 1)]

\* getSmartStoragePath, main.go 232-263: run under s.mu as one step; the
\* directory chosen and the counters after the call.
getSmartStoragePath(counters, assetID) ==
    LET basePath == BasePath(assetID)
        c == LoadOrStore(counters, basePath)
    IN  IF c[basePath] >= FILES_PER_DIR
        THEN ProbeBuckets(c, basePath, 0)
        ELSE [path |-> basePath, counters |-> Add(c, basePath, 1)]

\* ---------------------------------------------------- counter-based: upload
\* main.go 301-306: the id is drawn and the directory chosen before a byte
\* of the body is read.
LegUploadPlace(p, body) ==
    /\ mode = "counter"
    /\ pc[p] = "idle"
    /\ nextId <= MaxIds
    /\ \E apiKey \in Keys :
          /\ APIKeyAuth(apiKey)
          /\ req' = [req EXCEPT ![p] = [NoReq EXCEPT !.op = "upload", !.key = apiKey,
                                        !.body = body]]
    /\ LET placed == getSmartStoragePath(directoryCounter, nextId)
       IN  /\ directoryCounter' = placed.counters
           /\ loc' = [loc EXCEPT ![p] = [NoLoc EXCEPT !.assetID = nextId,
                                                      !.dir = placed.path]]
    /\ nextId' = nextId + 1
    /\ Goto(p, "l_write")
    /\ UNCHANGED <<tempFiles, mode, now, mu, catalog, backend, cache, files, faults, eff, deletedOK>>

\* os.Create and the writes of io.Copy: the file holds what was written
WriteFile(fs, dir, name, data) ==
    {f \in fs : ~(f.dir = dir /\ f.name = name)}
        \cup {[dir |-> dir, name |-> name, data |-> data]}

\* main.go 308-343: the file is created in the chosen directory and the body
\* copied into it through http.MaxBytesReader; when the copy fails the
\* handler returns and the file stays as written so far.
LegUploadWrite(p) ==
    /\ mode = "counter"
    /\ pc[p] = "l_write"
    /\ LET body == req[p].body
           destFileName == <<loc[p].assetID, Extension(MaxBytesRead(body))>>
       IN  /\ files' = WriteFile(files, loc[p].dir, destFileName, MaxBytesRead(body))
           /\ Effect(p, "put")
           /\ IF MaxBytesError(body)
              THEN /\ Respond(p, ErrorResponse(500))
                   /\ UNCHANGED loc
              ELSE /\ loc' = [loc EXCEPT ![p].hash = Hash(body),
                                         ![p].size = Len(body),
                                         ![p].ext = Extension(body)]
                   /\ Goto(p, "l_save")
    /\ UNCHANGED <<tempFiles, mode, now, mu, catalog, backend, cache, directoryCounter, nextId,
                   req, faults, deletedOK>>

LegNewAsset(p) ==
    [id |-> loc[p].assetID,
     storagePath |-> loc[p].dir,
     fileName |-> <<loc[p].assetID, loc[p].ext>>,
     size |-> loc[p].size,
     hash |-> loc[p].hash,
     createdAt |-> now]

\* Mutant: an upload whose digest is already recorded answers with the
\* existing record instead of inserting.
LegUploadSave_Dedup(p) ==
    /\ mode = "counter"
    /\ pc[p] = "l_save"
    /\ \/ /\ FindByHash(catalog, loc[p].hash) = {}
          /\ catalog' = saveAssetMetadata(catalog, LegNewAsset(p))
          /\ now' = now + 1
          /\ Effect(p, "insert")
          /\ Respond(p, Response(201, LegNewAsset(p), FALSE, <<>>))
          /\ UNCHANGED faults
       \/ /\ \E existingAsset \in FindByHash(catalog, loc[p].hash) :
                Respond(p, Response(200, existingAsset, TRUE, <<>>))
          /\ UNCHANGED <<catalog, now, faults, eff>>
       \/ /\ Fault(p)
          /\ Respond(p, ErrorResponse(500))
          /\ UNCHANGED <<catalog, now>>
    /\ UNCHANGED <<tempFiles, mode, mu, backend, cache, files, directoryCounter, nextId,
                   req, loc, deletedOK>>

\* main.go 345-363: the insert
LegUploadSave(p) ==
    /\ mode = "counter"
    /\ pc[p] = "l_save"
    /\ \/ /\ ~CreateConflict(catalog, LegNewAsset(p))
          /\ catalog' = saveAssetMetadata(catalog, LegNewAsset(p))
          /\ now' = now + 1
          /\ Effect(p, "insert")
          /\ Respond(p, Response(201, LegNewAsset(p), FALSE, <<>>))
          /\ UNCHANGED faults
       \/ /\ Fault(p)
          /\ Respond(p, ErrorResponse(500))
          /\ UNCHANGED <<catalog, now>>
    /\ UNCHANGED <<tempFiles, mode, mu, backend, cache, files, directoryCounter, nextId,
                   req, loc, deletedOK>>

\* -------------------------------------------------- counter-based: download
\* main.go 402-418: the id is the part of the name before the first "."
LegDownloadLookup(p, id, ext) ==
    /\ mode = "counter"
    /\ pc[p] = "idle"
    /\ req' = [req EXCEPT ![p] = [NoReq EXCEPT !.op = "download", !.id = id,
                                  !.ext = ext, !.late = (id \in deletedOK),
                                  !.after = (id \in Returned)]]
    /\ LookupByID(p, id, "l_file")
    /\ UNCHANGED <<tempFiles, mode, now, mu, catalog, backend, cache, files, directoryCounter,
                   nextId, deletedOK>>

\* os.Stat: the file of that name in that directory, if any
Stat(fs, dir, name) == {f \in fs : f.dir = dir /\ f.name = name}

\* main.go 419-428: the file named as the request names it, in the record's
\* directory.
LegDownloadFile(p) ==
    /\ mode = "counter"
    /\ pc[p] = "l_file"
    /\ LET filePath == Stat(files, loc[p].asset.storagePath, <<req[p].id, req[p].ext>>)
       IN  IF filePath = {}
           THEN Respond(p, ErrorResponse(404))
           ELSE \E f \in filePath : Respond(p, Response(200, loc[p].asset, FALSE, f.data))
    /\ UNCHANGED <<tempFiles, mode, now, mu, catalog, backend, cache, files, directoryCounter,
                   nextId, req, loc, faults, eff, deletedOK>>

\* ---------------------------------------------------- counter-based: delete
\* main.go 431-448
LegDeleteLookup(p, id) ==
    /\ mode = "counter"
    /\ pc[p] = "idle"
    /\ \E apiKey \in Keys :
          /\ APIKeyAuth(apiKey)
          /\ req' = [req EXCEPT ![p] = [NoReq EXCEPT !.op = "delete", !.key = apiKey,
                                        !.id = id]]
    /\ LookupByID(p, id, "l_rmfile")
    /\ UNCHANGED <<tempFiles, mode, now, mu, catalog, backend, cache, files, directoryCounter,
                   nextId, deletedOK>>

\* main.go 450-454: os.Remove of the stored file; a missing file is no error
LegDeleteFile(p) ==
    /\ mode = "counter"
    /\ pc[p] = "l_rmfile"
    /\ \/ /\ files' = files \ Stat(files, loc[p].asset.storagePath, loc[p].asset.fileName)
          /\ Effect(p, "remove")
          /\ Goto(p, "l_rmmeta")
          /\ UNCHANGED faults
       \/ /\ Fault(p)
          /\ Respond(p, ErrorResponse(500))
          /\ UNCHANGED files
    /\ UNCHANGED <<tempFiles, mode, now, mu, catalog, backend, cache, directoryCounter, nextId,
                   req, loc, deletedOK>>

\* main.go 456-459
LegDeleteMeta(p) ==
    /\ mode = "counter"
    /\ pc[p] = "l_rmmeta"
    /\ \/ /\ catalog' = deleteAssetMetadata(catalog, req[p].id)
          /\ Effect(p, "deleteRow")
          /\ Goto(p, "l_counter")
          /\ UNCHANGED faults
       \/ /\ Fault(p)
          /\ Respond(p, ErrorResponse(500))
          /\ UNCHANGED catalog
    /\ UNCHANGED <<tempFiles, mode, now, mu, backend, cache, files, directoryCounter, nextId,
                   req, loc, deletedOK>>

\* Mutant: the counter is decremented without the test that it is positive.
Decrement_Unguarded(counters, dirPath) ==
    IF dirPath \in DOMAIN counters
    THEN Add(counters, dirPath, -1)
    ELSE counters

\* main.go 461-470, under s.mu: the directory's counter goes down by one when
\* it exists and is positive.
Decrement(counters, dirPath) ==
    IF dirPath \in DOMAIN counters /\ counters[dirPath] > 0
    THEN Add(counters, dirPath, -1)
    ELSE counters

\* main.go 461-475
LegDeleteCounter(p) ==
    /\ mode = "counter"
    /\ pc[p] = "l_counter"
    /\ directoryCounter' = Decrement(directoryCounter, loc[p].asset.storagePath)
    /\ Respond(p, Response(200, NoAsset, FALSE, <<>>))
    /\ deletedOK' = deletedOK \cup {req[p].id}
    /\ UNCHANGED <<tempFiles, mode, now, mu, catalog, backend, cache, files, nextId, req, loc,
                   faults, eff>>

\* -------------------------------------------------------------------- list
\* The values listAssets starts from and the largest limit it accepts.
DefaultLimit == 100
DefaultOffset == 0
MaxLimit == 1000

Digits == <<"0", "1", "2", "3", "4", "5", "6", "7", "8", "9">>

IsDigit(c) == \E d \in 1..Len(Digits) : Digits[d] = c

DigitValue(c) == (CHOOSE d \in 1..Len(Digits) : Digits[d] = c) - 1

RECURSIVE ParseDigits(_, _)
ParseDigits(s, acc) ==
    IF s = <<>> THEN acc ELSE ParseDigits(Tail(s), acc * 10 + DigitValue(Head(s)))

\* strconv.Atoi on a string given as its characters: an optional sign, then
\* one or more decimal digits; anything else is an error.
Atoi(s) ==
    LET signed == s # <<>> /\ Head(s) \in {"+", "-"}
        digits == IF signed THEN Tail(s) ELSE s
    IN  IF digits = <<>> \/ \E i \in 1..Len(digits) : ~IsDigit(digits[i])
        THEN [err |-> TRUE, n |-> 0]
        ELSE [err |-> FALSE,
              n |-> IF signed /\ Head(s) = "-" THEN 0 - ParseDigits(digits, 0)
                    ELSE ParseDigits(digits, 0)]

\* Mutant: the upper bound on the limit is not checked.
ParseLimit_NoMax(limitParam) ==
    IF limitParam # <<>> /\ ~Atoi(limitParam).err /\ Atoi(limitParam).n > 0
    THEN Atoi(limitParam).n
    ELSE DefaultLimit

\* part_002 395-403, main.go 366-374: the limit a list request runs with
ParseLimit(limitParam) ==
    IF /\ limitParam # <<>>
       /\ ~Atoi(limitParam).err
       /\ Atoi(limitParam).n > 0
       /\ Atoi(limitParam).n <= MaxLimit
    THEN Atoi(limitParam).n
    ELSE DefaultLimit

\* part_002 396, 404-409, main.go 367, 375-380: the offset it runs with
ParseOffset(offsetParam) ==
    IF offsetParam # <<>> /\ ~Atoi(offsetParam).err /\ Atoi(offsetParam).n >= 0
    THEN Atoi(offsetParam).n
    ELSE DefaultOffset

\* countAssets: SELECT count(*)
countAssets(cat) == Cardinality(cat)

\* ORDER BY created_at DESC
RECURSIVE OrderByCreatedAtDesc(_)
OrderByCreatedAtDesc(cat) ==
    IF cat = {} THEN <<>>
    ELSE LET r == CHOOSE a \in cat : \A b \in cat : b.createdAt <= a.createdAt
         IN  <<r>> \o OrderByCreatedAtDesc(cat \ {r})

\* Mutant: the page is read oldest first.
getAssetsByPage_Ascending(cat, limit, offset) ==
    LET all == OrderByCreatedAtDesc(cat)
        asc == [i \in 1..Len(all) |-> all[Len(all) + 1 - i]]
        last == IF offset + limit < Len(asc) THEN offset + limit ELSE Len(asc)
    IN  SubSeq(asc, offset + 1, last)

\* getAssetsByPage: Order("created_at DESC").Limit(limit).Offset(offset)
getAssetsByPage(cat, limit, offset) ==
    LET all == OrderByCreatedAtDesc(cat)
        last == IF offset + limit < Len(all) THEN offset + limit ELSE Len(all)
    IN  SubSeq(all, offset + 1, last)

\* The JSON body of a successful list
ListResponse(totalCount, limit, offset, assets) ==
    [status |-> 200, asset |-> NoAsset, deduped |-> FALSE, bytes |-> <<>>,
     total |-> totalCount, limit |-> limit, offset |-> offset, assets |-> assets]

\* part_002 394-415, main.go 365-386: the parameters are parsed and the
\* records counted.
ListCount(p, limitParam, offsetParam) ==
    /\ pc[p] = "idle"
    /\ \E apiKey \in Keys :
          /\ APIKeyAuth(apiKey)
          /\ req' = [req EXCEPT ![p] = [NoReq EXCEPT !.op = "list", !.key = apiKey,
                                        !.limit = limitParam,
                                        !.offset = offsetParam]]
    /\ \/ /\ loc' = [loc EXCEPT ![p] = [NoLoc EXCEPT !.limit = ParseLimit(limitParam),
                                               !.offset = ParseOffset(offsetParam),
                                               !.totalCount = countAssets(catalog)]]
          /\ Goto(p, "ls_page")
          /\ UNCHANGED <<faults, eff>>
       \/ /\ Fault(p)
          /\ Respond(p, ErrorResponse(500))
          /\ UNCHANGED loc
    /\ UNCHANGED <<tempFiles, mode, now, mu, catalog, backend, cache, files, directoryCounter,
                   nextId, deletedOK>>

\* part_002 416-430, main.go 387-400: the page is read, in a second query.
ListPage(p) ==
    /\ pc[p] = "ls_page"
    /\ \/ /\ Respond(p, ListResponse(loc[p].totalCount, loc[p].limit, loc[p].offset,
                          getAssetsByPage(catalog, loc[p].limit, loc[p].offset)))
          /\ UNCHANGED <<faults, eff>>
       \/ /\ Fault(p)
          /\ Respond(p, ErrorResponse(500))
    /\ UNCHANGED <<tempFiles, mode, now, mu, catalog, backend, cache, files, directoryCounter,
                   nextId, req, loc, deletedOK>>

\* ---------------------------------------------------------------- requests
\* The routes behind APIKeyAuth (part_002 197-199, main.go 131-133).
Guarded == {"upload", "list", "delete"}

\* part_002 226-237, main.go 172-183: a request to a guarded route whose key
\* is not the configured one is aborted with 401; the handler does not run.
Unauthorized(p, op) ==
    /\ pc[p] = "idle"
    /\ \E apiKey \in Keys :
          /\ ~APIKeyAuth(apiKey)
          /\ req' = [req EXCEPT ![p] = [NoReq EXCEPT !.op = op, !.key = apiKey]]
    /\ Respond(p, ErrorResponse(401))
    /\ UNCHANGED <<tempFiles, mode, now, mu, catalog, backend, cache, files, directoryCounter,
                   nextId, loc, faults, eff, deletedOK>>

\* The response is written and the connection serves the next request.
Finish(p) ==
    /\ pc[p] = "done"
    /\ pc' = [pc EXCEPT ![p] = "idle"]
    /\ req' = [req EXCEPT ![p] = NoReq]
    /\ loc' = [loc EXCEPT ![p] = NoLoc]
    /\ resp' = [resp EXCEPT ![p] = NoResp]
    /\ eff' = [eff EXCEPT ![p] = {}]
    /\ UNCHANGED <<tempFiles, mode, now, mu, catalog, backend, cache, files, directoryCounter,
                   nextId, faults, deletedOK>>

Exts == {"", ".bin", ".txt"}
\* The ids a client may ask for: a malformed one (BadId), the ids handed out
\* so far, and a well-formed id that was never handed out.
UnknownId == MaxIds + 1
IdInputs == (0..(nextId - 1)) \cup {UnknownId}

CasNext ==
    \/ \E p \in Procs, body \in Bodies : CasUploadRead(p, body)
    \/ \E p \in Procs : CasUploadLookup(p)
    \/ \E p \in Procs : CasUploadPut(p)
    \/ \E p \in Procs : CasUploadSave(p)
    \/ \E p \in Procs, id \in IdInputs : CasDownloadLookup(p, id)
    \/ \E p \in Procs : CasDownloadOpen(p)
    \/ \E p \in Procs, id \in IdInputs : CasDeleteLookup(p, id)
    \/ \E p \in Procs : CasDeleteMeta(p)
    \/ \E p \in Procs : CasDeleteObject(p)
    \/ CacheEvict

LegNext ==
    \/ \E p \in Procs, body \in Bodies : LegUploadPlace(p, body)
    \/ \E p \in Procs : LegUploadWrite(p)
    \/ \E p \in Procs : LegUploadSave(p)
    \/ \E p \in Procs, id \in IdInputs, ext \in Exts : LegDownloadLookup(p, id, ext)
    \/ \E p \in Procs : LegDownloadFile(p)
    \/ \E p \in Procs, id \in IdInputs : LegDeleteLookup(p, id)
    \/ \E p \in Procs : LegDeleteFile(p)
    \/ \E p \in Procs : LegDeleteMeta(p)
    \/ \E p \in Procs : LegDeleteCounter(p)

Next ==
    \/ CasNext
    \/ LegNext
    \/ \E p \in Procs : ListCount(p, <<>>, <<>>)
    \/ \E p \in Procs : ListPage(p)
    \/ \E p \in Procs, op \in Guarded : Unauthorized(p, op)
    \/ \E p \in Procs : Finish(p)

Spec == Init /\ [][Next]_vars

\* ------------------------------------------------- listing a settled catalog
\* The list handler run by one client against catalogs nobody is writing to.
\* The number of records of the largest such catalog.
ListRecords == 3

ListProcs == {"p1"}

\* The query parameters a client may send: absent, not a number, and numbers
\* around the limits the handler checks.
LimitParams == {<<>>, <<"a">>, <<"0">>, <<"1">>, <<"2">>, <<"+", "2">>, <<"-", "1">>,
                <<"1", "0", "0", "0">>, <<"1", "0", "0", "1">>}
OffsetParams == {<<>>, <<"a">>, <<"-", "1">>, <<"0">>, <<"1">>, <<"4">>}

\* The bodies an upload can store.
StoredBodies == {b \in Bodies : ~MaxBytesError(b)}

\* The directories getSmartStoragePath gives the ids 1..k, drawn in order
\* from empty counters, and the counters after them.
RECURSIVE PlaceFirst(_)
PlaceFirst(k) ==
    IF k = 0 THEN [counters |-> [d \in {} |-> 0], dirs |-> <<>>]
    ELSE LET prev == PlaceFirst(k - 1)
             placed == getSmartStoragePath(prev.counters, k)
         IN  [counters |-> placed.counters, dirs |-> Append(prev.dirs, placed.path)]

\* The record of the upload that drew id i, stored body and committed t-th.
StoredAsset(i, body, t) ==
    [id |-> i, fileName |-> <<i, Extension(body)>>, size |-> Len(body),
     hash |-> Hash(body), createdAt |-> t]

\* The state after n uploads have succeeded: upload i drew id i, stored
\* bodyOf[i] and committed as the order[i]-th (uploads that overlap commit in
\* any order); in the content-addressed service the bodies differ.
InitList ==
    /\ mode \in Modes
    /\ \E n \in 0..ListRecords :
       \E bodyOf \in [1..n -> StoredBodies] :
       \E order \in {f \in [1..n -> 1..n] : \A i, j \in 1..n : f[i] = f[j] => i = j} :
          /\ mode = "cas" => \A i, j \in 1..n : bodyOf[i] = bodyOf[j] => i = j
          /\ nextId = n + 1
          /\ now = n + 1
          /\ IF mode = "cas"
             THEN /\ catalog = {StoredAsset(i, bodyOf[i], order[i]) : i \in 1..n}
                  /\ backend = {[key |-> getStoragePath(Hash(bodyOf[i])),
                                 data |-> bodyOf[i]] : i \in 1..n}
                  /\ files = {}
                  /\ directoryCounter = [d \in {} |-> 0]
             ELSE /\ catalog = {[storagePath |-> PlaceFirst(n).dirs[i]]
                                    @@ StoredAsset(i, bodyOf[i], order[i]) : i \in 1..n}
                  /\ backend = {}
                  /\ files = {[dir |-> PlaceFirst(n).dirs[i],
                               name |-> <<i, Extension(bodyOf[i])>>,
                               data |-> bodyOf[i]] : i \in 1..n}
                  /\ directoryCounter = PlaceFirst(n).counters
    /\ cache = {}
    /\ mu = NoHolder
    /\ pc = [p \in Procs |-> "idle"]
    /\ req = [p \in Procs |-> NoReq]
    /\ loc = [p \in Procs |-> NoLoc]
    /\ resp = [p \in Procs |-> NoResp]
    /\ faults = 0
    /\ eff = [p \in Procs |-> {}]
    /\ deletedOK = {}
    /\ tempFiles = {}

NextList ==
    \/ \E p \in ListProcs, limitParam \in LimitParams, offsetParam \in OffsetParams :
          ListCount(p, limitParam, offsetParam)
    \/ \E p \in ListProcs : ListPage(p)
    \/ \E p \in ListProcs : Finish(p)

SpecList == InitList /\ [][NextList]_vars

\* ------------------------------------------- counter-based: the mutex s.mu
\* The placement and the counter update of a delete, with the acquisition and
\* the release of s.mu as steps of their own, so that requests interleave
\* between them.
PlaceIds == 3

\* main.go 301-304: the upload is admitted and its id drawn.
LegUploadBegin(p, body) ==
    /\ mode = "counter"
    /\ pc[p] = "idle"
    /\ nextId <= PlaceIds
    /\ \E apiKey \in Keys :
          /\ APIKeyAuth(apiKey)
          /\ req' = [req EXCEPT ![p] = [NoReq EXCEPT !.op = "upload", !.key = apiKey,
                                        !.body = body]]
    /\ loc' = [loc EXCEPT ![p] = [NoLoc EXCEPT !.assetID = nextId]]
    /\ nextId' = nextId + 1
    /\ Goto(p, "l_lock")
    /\ UNCHANGED <<tempFiles, mode, now, mu, catalog, backend, cache, files, directoryCounter,
                   faults, eff, deletedOK>>

\* main.go 242: s.mu.Lock() returns once no other request holds the mutex.
PlaceLock(p) ==
    /\ mode = "counter"
    /\ pc[p] = "l_lock"
    /\ mu = NoHolder
    /\ mu' = p
    /\ Goto(p, "l_place")
    /\ UNCHANGED <<tempFiles, mode, now, catalog, backend, cache, files, directoryCounter,
                   nextId, req, loc, faults, eff, deletedOK>>

\* Mutant: the deferred unlock is missing; the mutex stays held while the
\* file is written.
PlaceUnlock_KeepsLock(p) ==
    /\ mode = "counter"
    /\ pc[p] = "l_place"
    /\ LET placed == getSmartStoragePath(directoryCounter, loc[p].assetID)
       IN  /\ directoryCounter' = placed.counters
           /\ loc' = [loc EXCEPT ![p].dir = placed.path]
    /\ mu' = mu
    /\ Goto(p, "l_write")
    /\ UNCHANGED <<tempFiles, mode, now, catalog, backend, cache, files, nextId, req, faults,
                   eff, deletedOK>>

\* main.go 243-263: the probe and the increment, then the deferred
\* s.mu.Unlock() as getSmartStoragePath returns.
PlaceUnlock(p) ==
    /\ mode = "counter"
    /\ pc[p] = "l_place"
    /\ LET placed == getSmartStoragePath(directoryCounter, loc[p].assetID)
       IN  /\ directoryCounter' = placed.counters
           /\ loc' = [loc EXCEPT ![p].dir = placed.path]
    /\ mu' = NoHolder
    /\ Goto(p, "l_write")
    /\ UNCHANGED <<tempFiles, mode, now, catalog, backend, cache, files, nextId, req, faults,
                   eff, deletedOK>>

\* main.go 461: s.mu.Lock() after the record is gone.
CounterLock(p) ==
    /\ mode = "counter"
    /\ pc[p] = "l_counter"
    /\ mu = NoHolder
    /\ mu' = p
    /\ Goto(p, "l_dec")
    /\ UNCHANGED <<tempFiles, mode, now, catalog, backend, cache, files, directoryCounter,
                   nextId, req, loc, faults, eff, deletedOK>>

\* main.go 462-475: the decrement, s.mu.Unlock(), and the 200.
CounterUnlock(p) ==
    /\ mode = "counter"
    /\ pc[p] = "l_dec"
    /\ directoryCounter' = Decrement(directoryCounter, loc[p].asset.storagePath)
    /\ mu' = NoHolder
    /\ Respond(p, Response(200, NoAsset, FALSE, <<>>))
    /\ deletedOK' = deletedOK \cup {req[p].id}
    /\ UNCHANGED <<tempFiles, mode, now, catalog, backend, cache, files, nextId, req, loc,
                   faults, eff>>

\* The empty service in counter-based mode.
InitPlace ==
    /\ mode = "counter"
    /\ catalog = {}
    /\ backend = {}
    /\ cache = {}
    /\ files = {}
    /\ directoryCounter = [d \in {} |-> 0]
    /\ nextId = 1
    /\ now = 1
    /\ mu = NoHolder
    /\ pc = [p \in Procs |-> "idle"]
    /\ req = [p \in Procs |-> NoReq]
    /\ loc = [p \in Procs |-> NoLoc]
    /\ resp = [p \in Procs |-> NoResp]
    /\ faults = 0
    /\ eff = [p \in Procs |-> {}]
    /\ deletedOK = {}
    /\ tempFiles = {}

\* The bodies uploaded here: an empty one and one over MAX_UPLOAD_SIZE (the
\* content does not matter to the placement, whether the upload fails does).
PlaceBodies == {b \in Bodies : Len(b) # MAX_UPLOAD_SIZE}

\* Uploads and deletes only: the requests that touch the counters.
NextPlace ==
    \/ \E p \in Procs, body \in PlaceBodies : LegUploadBegin(p, body)
    \/ \E p \in Procs : PlaceLock(p)
    \/ \E p \in Procs : PlaceUnlock(p)
    \/ \E p \in Procs : LegUploadWrite(p)
    \/ \E p \in Procs : LegUploadSave(p)
    \/ \E p \in Procs, id \in 1..(nextId - 1) : LegDeleteLookup(p, id)
    \/ \E p \in Procs : LegDeleteFile(p)
    \/ \E p \in Procs : LegDeleteMeta(p)
    \/ \E p \in Procs : CounterLock(p)
    \/ \E p \in Procs : CounterUnlock(p)
    \/ \E p \in Procs : Finish(p)

SpecPlace == InitPlace /\ [][NextPlace]_vars

\* ------------------------------------------------- counter-based: restart
\* filepath.Dir of a relative directory path given as its components: the
\* path without its last component, "." when there is only one.
Dir(path) == IF Len(path) <= 1 THEN <<".">> ELSE SubSeq(path, 1, Len(path) - 1)

\* main.go 141-170: one Add(1) per record, on the counter stored under
\* filepath.Dir(asset.StoragePath); the adds are atomic, so the order in
\* which the goroutines run does not show.
initDirectoryCounters(cat) ==
    [d \in {Dir(r.storagePath) : r \in cat} |->
        Cardinality({r \in cat : Dir(r.storagePath) = d})]

\* The process stops: the requests in flight and the counter map, which
\* live in memory, are lost; the catalog and the files stay.
Crash ==
    /\ mode = "counter"
    /\ \E p \in Procs : pc[p] # "down"
    /\ directoryCounter' = [d \in {} |-> 0]
    /\ mu' = NoHolder
    /\ pc' = [p \in Procs |-> "down"]
    /\ req' = [p \in Procs |-> NoReq]
    /\ loc' = [p \in Procs |-> NoLoc]
    /\ resp' = [p \in Procs |-> NoResp]
    /\ eff' = [p \in Procs |-> {}]
    /\ UNCHANGED <<tempFiles, mode, now, catalog, backend, cache, files, nextId, faults,
                   deletedOK>>

\* main.go 105-111: main builds the service with an empty counter map and
\* runs initDirectoryCounters; when its query fails the failure is logged
\* and the service starts with the map empty.
Startup ==
    /\ mode = "counter"
    /\ \A p \in Procs : pc[p] = "down"
    /\ \/ /\ directoryCounter' = initDirectoryCounters(catalog)
          /\ UNCHANGED faults
       \/ /\ faults < MaxFaults
          /\ faults' = faults + 1
          /\ directoryCounter' = [d \in {} |-> 0]
    /\ pc' = [p \in Procs |-> "idle"]
    /\ UNCHANGED <<tempFiles, mode, now, mu, catalog, backend, cache, files, nextId, req, loc,
                   resp, eff, deletedOK>>

\* The counter-based service running with up to ListRecords records.
InitRestart == InitList /\ mode = "counter"

\* The service stops and starts; between restarts one client uploads and
\* deletes.
NextRestart ==
    \/ Crash
    \/ Startup
    \/ \E p \in ListProcs, body \in PlaceBodies : LegUploadPlace(p, body)
    \/ \E p \in ListProcs : LegUploadWrite(p)
    \/ \E p \in ListProcs : LegUploadSave(p)
    \/ \E p \in ListProcs, id \in 1..(nextId - 1) : LegDeleteLookup(p, id)
    \/ \E p \in ListProcs : LegDeleteFile(p)
    \/ \E p \in ListProcs : LegDeleteMeta(p)
    \/ \E p \in ListProcs : LegDeleteCounter(p)
    \/ \E p \in ListProcs : Finish(p)

SpecRestart == InitRestart /\ [][NextRestart]_vars

\* ------------------------------------------- content-addressed: the key
\* The digests getStoragePath is applied to: strings shorter than two
\* characters, of two, and the digests of the bodies.
Digests == {<<>>, <<"a">>, <<"a", "b">>} \cup {Hash(b) : b \in StoredBodies}

\* The content-addressed service, empty, with the first upload about to put
\* its object under the digest fileHash.
InitKey ==
    /\ mode = "cas"
    /\ catalog = {}
    /\ backend = {}
    /\ cache = {}
    /\ files = {}
    /\ directoryCounter = [d \in {} |-> 0]
    /\ nextId = 2
    /\ now = 1
    /\ mu = NoHolder
    /\ \E body \in StoredBodies, fileHash \in Digests :
          /\ fileHash \in {Hash(b) : b \in StoredBodies} => fileHash = Hash(body)
          /\ pc = [p \in Procs |-> IF p \in ListProcs THEN "u_put" ELSE "idle"]
          /\ tempFiles = {[owner |-> p, data |-> body] : p \in ListProcs}
          /\ req = [p \in Procs |->
                       IF p \in ListProcs
                       THEN [NoReq EXCEPT !.op = "upload", !.key = API_KEY,
                                          !.body = body]
                       ELSE NoReq]
          /\ loc = [p \in Procs |->
                       IF p \in ListProcs
                       THEN [NoLoc EXCEPT !.assetID = 1, !.hash = fileHash,
                                          !.size = Len(body),
                                          !.ext = Extension(body)]
                       ELSE NoLoc]
    /\ resp = [p \in Procs |-> NoResp]
    /\ faults = 0
    /\ eff = [p \in Procs |-> {}]
    /\ deletedOK = {}

\* The upload goes on; its record is downloaded and deleted.
NextKey ==
    \/ \E p \in Procs : CasUploadPut(p)
    \/ \E p \in Procs : CasUploadSave(p)
    \/ \E p \in Procs, id \in 1..(nextId - 1) : CasDownloadLookup(p, id)
    \/ \E p \in Procs : CasDownloadOpen(p)
    \/ \E p \in Procs, id \in 1..(nextId - 1) : CasDeleteLookup(p, id)
    \/ \E p \in Procs : CasDeleteMeta(p)
    \/ \E p \in Procs : CasDeleteObject(p)
    \/ CacheEvict
    \/ \E p \in Procs : Finish(p)

SpecKey == InitKey /\ [][NextKey]_vars

\* ------------------------------------- counter-based: counters over time
\* Two clients upload and delete, the same id at the same time included,
\* while the service stops and starts.
NextCounters ==
    \/ Crash
    \/ Startup
    \/ \E p \in Procs, body \in PlaceBodies : LegUploadPlace(p, body)
    \/ \E p \in Procs : LegUploadWrite(p)
    \/ \E p \in Procs : LegUploadSave(p)
    \/ \E p \in Procs, id \in 1..(nextId - 1) : LegDeleteLookup(p, id)
    \/ \E p \in Procs : LegDeleteFile(p)
    \/ \E p \in Procs : LegDeleteMeta(p)
    \/ \E p \in Procs : LegDeleteCounter(p)
    \/ \E p \in Procs : Finish(p)

SpecCounters == InitPlace /\ [][NextCounters]_vars

\* ================================================================== claims
Done(p, op) == pc[p] = "done" /\ req[p].op = op

\* The request of p has reached its handler: its route is open, or its key
\* is the configured one.
Admitted(p) == req[p].op \notin Guarded \/ req[p].key = API_KEY

Quiescent == \A p \in Procs : pc[p] \in {"idle", "done"}

Failed(p) == resp[p].status >= 400

\* The key the documentation gives for a digest: digest[0:2]/digest.
DocumentedKey(hash) == SubSeq(hash, 1, 2) \o <<"/">> \o hash

\* The uploads of body b that reached the handler and whose response is
\* held, none of them hit by a failure.
UploadsOf(b) ==
    {p \in Procs : /\ Done(p, "upload") /\ Admitted(p)
                   /\ req[p].body = b /\ "fault" \notin eff[p]}

\* C1: content-addressed mode, no failure injected and no delete run: once
\* two or more uploads of the same bytes B have all finished, the catalog
\* holds exactly one record with the digest of B and the backend holds
\* exactly one object, with the bytes B, at digest[0:2]/digest.
C1_OneRecordOneObject ==
    (mode = "cas" /\ Quiescent /\ faults = 0 /\ deletedOK = {}) =>
        \A b \in Bodies :
            (Cardinality(UploadsOf(b)) >= 2 /\ ~MaxBytesError(b)) =>
                /\ Cardinality({r \in catalog : r.hash = Hash(b)}) = 1
                /\ backend = {o \in backend : o.key # DocumentedKey(Hash(b))}
                                \cup {[key |-> DocumentedKey(Hash(b)), data |-> b]}
                /\ Cardinality({o \in backend : o.data = b}) = 1

\* Two uploads of the same bytes both passed the existence check, both put
\* the object, and the second insert was rejected by the unique index.
C1_Witness ==
    /\ mode = "cas" /\ faults = 0 /\ deletedOK = {}
    /\ \E p, q \in Procs :
          /\ p # q
          /\ Done(p, "upload") /\ Done(q, "upload")
          /\ req[p].body = req[q].body
          /\ resp[p].status = 201
          /\ "put" \in eff[p] /\ "put" \in eff[q]
          /\ "conflict" \in eff[q]

\* C2: content-addressed mode: an upload whose insert was rejected because a
\* record with the same digest exists returns no error: it answers with the
\* existing record, marked as deduplicated.
C2_LoserIsDeduplicated ==
    \A p \in Procs :
        (mode = "cas" /\ Done(p, "upload") /\ "conflict" \in eff[p]) =>
            /\ ~Failed(p)
            /\ resp[p].deduped
            /\ resp[p].asset \in {r \in catalog : r.hash = Hash(req[p].body)}

\* C3: content-addressed mode, no failure injected: every catalog record has
\* a backend object at the key derived from its digest.
C3_NoDanglingRecord ==
    (mode = "cas" /\ faults = 0) =>
        \A r \in catalog : \E o \in backend : o.key = DocumentedKey(r.hash)

\* C4: content-addressed mode: no two catalog records have the same digest.
C4_UniqueDigest ==
    mode = "cas" =>
        \A r1, r2 \in catalog : r1.hash = r2.hash => r1 = r2

\* An insert was rejected although the upload had passed the existence check.
C4_Witness ==
    /\ mode = "cas"
    /\ \E p \in Procs :
          /\ Done(p, "upload")
          /\ "conflict" \in eff[p]
          /\ "fault" \notin eff[p]
          /\ req[p].pre = {}
          /\ \E r \in catalog : r.hash = Hash(req[p].body) /\ r.id # loc[p].assetID

\* C5: content-addressed mode, the upload not hit by a failure: an upload of
\* B that began when a record with the digest of B was in the catalog, the
\* record not deleted since, creates no record and returns that record,
\* whose digest is the digest it computed, marked as deduplicated.
C5_SecondUploadDeduplicates ==
    \A q \in Procs :
        (/\ mode = "cas"
         /\ Done(q, "upload")
         /\ "fault" \notin eff[q]
         /\ req[q].pre # {}
         /\ req[q].pre \subseteq catalog) =>
            /\ resp[q].status = 200
            /\ resp[q].deduped
            /\ req[q].pre = {resp[q].asset}
            /\ resp[q].asset.hash = Hash(req[q].body)
            /\ resp[q].asset.id # loc[q].assetID
            /\ getAssetByID(catalog, loc[q].assetID) = {}
            /\ eff[q] = {}

\* A first upload created the record and a second upload of the same bytes,
\* begun after it, returned the same record.
C5_Witness ==
    /\ mode = "cas"
    /\ \E p, q \in Procs :
          /\ p # q
          /\ Done(p, "upload") /\ resp[p].status = 201
          /\ Done(q, "upload") /\ resp[q].status = 200 /\ resp[q].deduped
          /\ req[q].pre = {resp[p].asset}
          /\ req[q].body = req[p].body
          /\ resp[q].asset = resp[p].asset

\* C6: content-addressed mode, no failure injected: a download of an id that
\* a successful upload of B had returned, the record of the id still in the
\* catalog, returns the bytes B.
C6_RoundTrip ==
    \A p, q \in Procs :
        (/\ mode = "cas" /\ faults = 0
         /\ Done(p, "upload") /\ resp[p].status \in {200, 201}
         /\ Done(q, "download")
         /\ req[q].after
         /\ req[q].id = resp[p].asset.id
         /\ getAssetByID(catalog, req[q].id) # {}) =>
            /\ resp[q].status = 200
            /\ resp[q].bytes = req[p].body

\* C7: both services: a download of an id that began after a delete of the id
\* had returned success, and that no failure hit, returns 404.
C7_DeletedIsNotFound ==
    \A q \in Procs :
        (Done(q, "download") /\ req[q].late /\ "fault" \notin eff[q]) =>
            resp[q].status = 404

\* A download of a deleted id has been answered.
C7_Witness ==
    \E q \in Procs :
        /\ Done(q, "download")
        /\ req[q].late
        /\ req[q].id \in deletedOK
        /\ resp[q].status = 404

\* C8: both services: an upload whose body is over MAX_UPLOAD_SIZE fails, and
\* leaves no catalog record and no object or file, not even a partial one.
\* (The claim's error kind, PayloadTooLarge, is read as any failure status.)
C8_OverLimitLeavesNothing ==
    \A p \in Procs :
        (Done(p, "upload") /\ MaxBytesError(req[p].body)) =>
            /\ Failed(p)
            /\ getAssetByID(catalog, loc[p].assetID) = {}
            /\ "put" \notin eff[p]
            /\ \A f \in files : f.name[1] # loc[p].assetID

\* C9: content-addressed mode: an upload answered on the dedup path has made
\* no backend operation and no catalog write, and the step that answers it
\* leaves the backend and the catalog as they were.
C9_DedupTouchesNothing ==
    /\ [](\A p \in Procs :
            (mode = "cas" /\ Done(p, "upload") /\ resp[p].deduped) =>
                eff[p] \cap {"put", "remove", "insert", "deleteRow"} = {})
    /\ [][\A p \in Procs :
            (mode = "cas" /\ pc[p] # "done" /\ pc'[p] = "done"
                /\ req'[p].op = "upload" /\ resp'[p].deduped) =>
                (backend' = backend /\ catalog' = catalog)]_vars

\* An upload was answered on the dedup path while objects and records exist.
C9_Witness ==
    /\ mode = "cas"
    /\ \E p \in Procs :
          /\ Done(p, "upload")
          /\ resp[p].deduped
          /\ resp[p].status = 200
          /\ resp[p].asset \in catalog
          /\ \E o \in backend : o.key = getStoragePath(resp[p].asset.hash)

\* C10: content-addressed mode: an upload that returns an error has written
\* no catalog row (no record carries its id), and the step on which it fails
\* leaves the catalog as it was: a put failure ends it before the insert, a
\* failed insert leaves at most the object it had put.
C10_FailedUploadLeavesCatalog ==
    /\ [](\A p \in Procs :
            (mode = "cas" /\ Done(p, "upload") /\ Failed(p)) =>
                /\ eff[p] \cap {"insert", "deleteRow"} = {}
                /\ getAssetByID(catalog, loc[p].assetID) = {})
    /\ [][\A p \in Procs :
            (mode = "cas" /\ pc[p] # "done" /\ pc'[p] = "done"
                /\ req'[p].op = "upload" /\ Failed(p)') =>
                catalog' = catalog]_vars

\* An insert failed after the put: the object is an orphan, there is no row.
C10_Witness ==
    /\ mode = "cas"
    /\ \E p \in Procs :
          /\ Done(p, "upload")
          /\ Failed(p)
          /\ "put" \in eff[p]
          /\ "fault" \in eff[p]
          /\ \E o \in backend : o.key = getStoragePath(loc[p].hash)
          /\ {r \in catalog : r.hash = loc[p].hash} = {}

\* The ids drawn before id whose base shard is the base shard of id.
PlacedBefore(id) == {i \in 1..(id - 1) : BasePath(i) = BasePath(id)}

\* The directory the claim gives the upload that drew id.
PlacementRule(id, dir) ==
    /\ Cardinality(PlacedBefore(id)) < FILES_PER_DIR => dir = BasePath(id)
    /\ Cardinality(PlacedBefore(id)) = FILES_PER_DIR =>
           dir = Append(BasePath(id), "bucket_0")

\* C11: counter-based placement, from empty counters and with no deletion
\* so far: of the objects placed under one base shard the first
\* FILES_PER_DIR are given the base shard's directory and the next one is
\* given base/bucket_0; the record of an upload keeps that directory.
C11_OverflowGoesToBucket0 ==
    (mode = "counter" /\ deletedOK = {}) =>
        /\ \A p \in Procs :
              (req[p].op = "upload" /\ loc[p].assetID # 0) =>
                  PlacementRule(loc[p].assetID, loc[p].dir)
        /\ \A r \in catalog : PlacementRule(r.id, r.storagePath)

\* The base shard is full and the next upload was given bucket_0.
C11_Witness ==
    /\ mode = "counter" /\ deletedOK = {}
    /\ \E p \in Procs :
          /\ req[p].op = "upload"
          /\ Cardinality(PlacedBefore(loc[p].assetID)) = FILES_PER_DIR
          /\ loc[p].dir = Append(BasePath(loc[p].assetID), "bucket_0")
          /\ \E i \in PlacedBefore(loc[p].assetID) :
                \E r \in catalog : r.id = i /\ r.storagePath = BasePath(i)

\* C12: a list answered from a catalog nobody writes to: the total is the
\* number of records; the page holds the records left after skipping offset
\* of them, at most limit of them; and its i-th record is the one with
\* exactly offset + i - 1 newer records in the catalog (newest first).
C12_PageOfNewestFirst ==
    \A p \in Procs :
        (Done(p, "list") /\ resp[p].status = 200) =>
            LET page == resp[p].assets
                rest == IF Cardinality(catalog) > resp[p].offset
                        THEN Cardinality(catalog) - resp[p].offset ELSE 0
            IN  /\ resp[p].total = Cardinality(catalog)
                /\ Len(page) = IF resp[p].limit < rest THEN resp[p].limit ELSE rest
                /\ \A i \in 1..Len(page) :
                      /\ page[i] \in catalog
                      /\ Cardinality({r \in catalog : r.createdAt > page[i].createdAt})
                            = resp[p].offset + i - 1

\* Three records, committed in another order than their ids were drawn,
\* listed with limit 2 and offset 0: the page is [t3, t2] and the total 3.
C12_Witness ==
    \E p \in Procs :
        /\ Done(p, "list") /\ resp[p].status = 200
        /\ Cardinality(catalog) = 3
        /\ resp[p].limit = 2 /\ resp[p].offset = 0
        /\ resp[p].total = 3
        /\ Len(resp[p].assets) = 2
        /\ resp[p].assets[1].createdAt = 3
        /\ resp[p].assets[2].createdAt = 2
        /\ resp[p].assets[1].id < resp[p].assets[2].id

\* The request p sends on this step: it leaves idle.
Begins(p, op) == pc[p] = "idle" /\ pc'[p] # "idle" /\ req'[p].op = op

\* C13: both services: a download or a delete whose id is malformed is
\* answered 400 at once: it never reaches a catalog or a backend call (none
\* can fail for it, it holds no record, it made no effect), and the step that
\* answers it changes nothing but the request itself.
C13_MalformedIdRejectedFirst ==
    /\ [](\A p \in Procs :
            (pc[p] # "idle" /\ req[p].op \in {"download", "delete"}
                /\ Admitted(p) /\ req[p].id = BadId) =>
                /\ pc[p] = "done"
                /\ resp[p].status = 400
                /\ eff[p] = {}
                /\ loc[p] = NoLoc)
    /\ [][\A p \in Procs :
            ((Begins(p, "download") \/ Begins(p, "delete"))
                /\ Admitted(p)' /\ req'[p].id = BadId) =>
                UNCHANGED <<catalog, backend, cache, files, directoryCounter,
                            nextId, now, faults, deletedOK>>]_vars

\* A delete with a malformed id was answered 400 while records are stored.
C13_Witness ==
    \E p \in Procs :
        /\ Done(p, "delete")
        /\ req[p].id = BadId
        /\ resp[p].status = 400
        /\ catalog # {}

\* C14: both services, the lookup not hit by a failure: a delete of a
\* well-formed id that has no record is answered 404 on the lookup step,
\* which leaves the catalog, the backend, the files and the directory
\* counters as they were; the request makes no effect.
C14_DeleteOfMissingIsNotFound ==
    /\ [](\A p \in Procs :
            (Done(p, "delete") /\ resp[p].status = 404) =>
                eff[p] = {} /\ loc[p] = NoLoc)
    /\ [][\A p \in Procs :
            (/\ Begins(p, "delete")
             /\ Admitted(p)'
             /\ req'[p].id # BadId
             /\ \A r \in catalog : r.id # req'[p].id
             /\ "fault" \notin eff'[p]) =>
                /\ pc'[p] = "done"
                /\ resp'[p].status = 404
                /\ UNCHANGED <<catalog, backend, cache, files, directoryCounter>>]_vars

\* Counter-based mode: a delete of an id without record was answered 404
\* while a record, a file and a counter exist.
C14_Witness ==
    /\ mode = "counter"
    /\ \E p \in Procs :
          /\ Done(p, "delete")
          /\ req[p].id # BadId
          /\ resp[p].status = 404
          /\ \A r \in catalog : r.id # req[p].id
          /\ catalog # {} /\ files # {}
          /\ \E d \in DOMAIN directoryCounter : directoryCounter[d] > 0

\* Neither the cache nor the backend holds an object at the key of digest hash.
Missing(hash) ==
    \A o \in backend \cup cache : o.key # DocumentedKey(hash)

\* C15: content-addressed download of an id whose record was found: the
\* answer is 404 exactly when no failure hit the open and the object is
\* missing, 500 exactly when opening or stating the file failed, and 200
\* otherwise; a failure is never answered as 404.
C15_NotFoundAndFailureDistinct ==
    /\ [](\A p \in Procs :
            (mode = "cas" /\ Done(p, "download") /\ loc[p].asset # NoAsset) =>
                /\ resp[p].status \in {200, 404, 500}
                /\ resp[p].status = 500 <=> "fault" \in eff[p])
    /\ [][\A p \in Procs :
            (mode = "cas" /\ pc[p] = "d_open" /\ pc'[p] = "done") =>
                /\ resp'[p].status = 404 <=>
                      (Missing(loc[p].asset.hash) /\ "fault" \notin eff'[p])
                /\ resp'[p].status = 500 <=> "fault" \in eff'[p]]_vars

\* The record was found and the object is stored, but opening it failed: 500.
C15_Witness ==
    /\ mode = "cas"
    /\ \E p \in Procs :
          /\ Done(p, "download")
          /\ loc[p].asset \in catalog
          /\ ~Missing(loc[p].asset.hash)
          /\ "fault" \in eff[p]
          /\ resp[p].status = 500

IntegerOf ==
    (<<"0">> :> 0) @@ (<<"1">> :> 1) @@ (<<"2">> :> 2) @@ (<<"4">> :> 4)
        @@ (<<"+", "2">> :> 2) @@ (<<"-", "1">> :> 0 - 1)
        @@ (<<"1", "0", "0", "0">> :> 1000) @@ (<<"1", "0", "0", "1">> :> 1001)

\* C17: a list request runs with the requested limit when that is an integer
\* in 1..1000 and with 100 otherwise, and with the requested offset when that
\* is an integer >= 0 and with 0 otherwise; the response reports both.
C17_EffectiveLimitAndOffset ==
    \A p \in Procs :
        (req[p].op = "list" /\ Admitted(p)
            /\ (pc[p] = "ls_page" \/ (pc[p] = "done" /\ resp[p].status = 200))) =>
            LET limit == IF pc[p] = "done" THEN resp[p].limit ELSE loc[p].limit
                offset == IF pc[p] = "done" THEN resp[p].offset ELSE loc[p].offset
            IN  /\ limit = IF /\ req[p].limit \in DOMAIN IntegerOf
                              /\ IntegerOf[req[p].limit] \in 1..1000
                           THEN IntegerOf[req[p].limit] ELSE 100
                /\ offset = IF /\ req[p].offset \in DOMAIN IntegerOf
                               /\ IntegerOf[req[p].offset] >= 0
                            THEN IntegerOf[req[p].offset] ELSE 0
                /\ limit = loc[p].limit /\ offset = loc[p].offset

\* A list asked for 1001 records from offset -1 and ran with 100 from 0.
C17_Witness ==
    \E p \in Procs :
        /\ Done(p, "list") /\ resp[p].status = 200
        /\ req[p].limit = <<"1", "0", "0", "1">>
        /\ req[p].offset = <<"-", "1">>
        /\ resp[p].limit = 100
        /\ resp[p].offset = 0
        /\ Len(resp[p].assets) = Cardinality(catalog)
        /\ catalog # {}

\* The stored bytes of record r: the object at the key of its digest, or the
\* file of its name in its directory.
StoredBytes(r) ==
    IF mode = "cas"
    THEN {o.data : o \in {x \in backend : x.key = DocumentedKey(r.hash)}}
    ELSE {f.data : f \in {x \in files : x.dir = r.storagePath /\ x.name = r.fileName}}

\* C18: both services, the download not hit by a failure: a download whose
\* name begins with an id that an upload had returned before, its record
\* still in the catalog and its bytes stored, is answered 200 with those
\* bytes, whatever follows the id in the name.
C18_AnyExtensionServes ==
    \A q \in Procs :
        (Done(q, "download") /\ req[q].after /\ "fault" \notin eff[q]) =>
            \A r \in catalog :
                (r.id = req[q].id /\ StoredBytes(r) # {}) =>
                    /\ resp[q].status = 200
                    /\ resp[q].bytes \in StoredBytes(r)

\* Request p commits an upload on this step: it is answered 201.
Commits(p) ==
    /\ pc[p] # "done" /\ pc'[p] = "done"
    /\ req'[p].op = "upload" /\ resp'[p].status = 201

\* C19: both services: a record enters the catalog only on the step that
\* commits an upload, with that upload's id, and leaves it only on a step of
\* a delete of its id; a step of a download or of a list leaves the catalog,
\* the backend and the files unchanged; and a record that stays keeps its
\* id, name, size and digest.
C19_RecordLifecycle ==
    [][/\ \A r \in catalog' \ catalog :
             \E p \in Procs : Commits(p) /\ resp'[p].asset = r /\ r.id = loc[p].assetID
       /\ \A r \in catalog \ catalog' :
             \E p \in Procs : req[p].op = "delete" /\ Admitted(p) /\ req[p].id = r.id
                                  /\ pc[p] # "done" /\ pc'[p] # pc[p]
       /\ \A p \in Procs :
             (pc'[p] # pc[p] /\ pc'[p] # "idle" /\ req'[p].op \in {"download", "list"}) =>
                 UNCHANGED <<catalog, backend, files, directoryCounter>>
       /\ \A r \in catalog : \A t \in catalog' :
             t.id = r.id =>
                 /\ t.fileName = r.fileName
                 /\ t.size = r.size
                 /\ t.hash = r.hash
                 /\ t = r]_vars

\* A record outlived a download and a list of the catalog that holds it.
C19_Witness ==
    \E p, q \in Procs :
        /\ Done(p, "download") /\ resp[p].status = 200
        /\ resp[p].asset \in catalog
        /\ Done(q, "list") /\ resp[q].status = 200
        /\ Len(resp[q].assets) > 0
        /\ resp[q].assets[1] = resp[p].asset

\* C20: counter-based delete: once a delete has failed, and no other delete
\* of the id is under way, the record of the id, if it is still in the
\* catalog, still has its file.
C20_FailedDeleteKeepsFile ==
    \A p \in Procs :
        (/\ mode = "counter"
         /\ Done(p, "delete") /\ Failed(p)
         /\ \A q \in Procs \ {p} :
               ~(req[q].op = "delete" /\ req[q].id = req[p].id /\ pc[q] # "done")) =>
            \A r \in catalog :
                r.id = req[p].id =>
                    \E f \in files : f.dir = r.storagePath /\ f.name = r.fileName

\* The keys at which the step removes an object from the backend.
RemovedKeys == {o.key : o \in backend} \ {o.key : o \in backend'}

\* C21: content-addressed delete: an object leaves the backend only on a
\* step of a delete that has already deleted its row, and at the key derived
\* from the digest of the record that delete found; a delete whose row
\* delete failed is answered without having removed an object.
C21_RowFirstThenObject ==
    /\ [](\A p \in Procs :
            (mode = "cas" /\ req[p].op = "delete" /\ "remove" \in eff[p]) =>
                /\ "deleteRow" \in eff[p]
                /\ \A r \in catalog : r.id # req[p].id)
    /\ [][mode = "cas" =>
            \A k \in RemovedKeys :
                \E p \in Procs :
                    /\ req[p].op = "delete"
                    /\ pc[p] # "done" /\ pc'[p] = "done"
                    /\ "deleteRow" \in eff[p]
                    /\ k = DocumentedKey(loc[p].asset.hash)
                    /\ loc[p].asset.id = req[p].id]_vars

\* A delete removed the row and then the object; another delete, whose row
\* delete failed, was answered 500 while the object it names is stored.
C21_Witness ==
    /\ mode = "cas"
    /\ \E p, q \in Procs :
          /\ Done(p, "delete") /\ resp[p].status = 200
          /\ "deleteRow" \in eff[p] /\ "remove" \in eff[p]
          /\ Done(q, "delete") /\ resp[q].status = 500
          /\ loc[q].asset \in catalog
          /\ \E o \in backend : o.key = DocumentedKey(loc[q].asset.hash)

\* The value of the counter of directory d; a directory without counter
\* counts as empty.
CounterOf(counters, d) == IF d \in DOMAIN counters THEN counters[d] ELSE 0

\* The directories that have a counter or a record.
KnownDirs == DOMAIN directoryCounter \cup {r.storagePath : r \in catalog}

\* C22: counter-based mode, no request in flight: the counter of every
\* directory is the number of catalog records stored in that directory.
C22_CountersMatchCatalog ==
    (mode = "counter" /\ Quiescent) =>
        \A d \in KnownDirs :
            CounterOf(directoryCounter, d)
                = Cardinality({r \in catalog : r.storagePath = d})

\* C28: both services: an upload that reached its handler holds an id only
\* once it has committed its record (it was answered 201): an upload under
\* way, deduplicated or failed has drawn none.
C28_IdOnlyAtCommit ==
    \A p \in Procs :
        (/\ req[p].op = "upload" /\ Admitted(p) /\ pc[p] # "idle"
         /\ ~(pc[p] = "done" /\ resp[p].status = 201)) =>
            loc[p].assetID = NoLoc.assetID

\* C29: content-addressed upload: an upload hit by a failure (of the lookup
\* by digest, of the put or of the insert) is answered with an error at
\* once: it is never found going on to the put or to the insert.
C29_LookupFailurePropagates ==
    \A p \in Procs :
        (mode = "cas" /\ req[p].op = "upload" /\ "fault" \in eff[p]) =>
            /\ pc[p] = "done"
            /\ Failed(p)

\* ------------------------------------------------------------------- C24
\* The overflow buckets of a base shard, as the claim names them.
BucketsOf(base) == {Append(base, "bucket_" \o ToString(i)) : i \in 0..(NumBuckets - 1)}

IsBucket(d) == Len(d) > 1

AllBucketsFull(counters, base) ==
    \A b \in BucketsOf(base) : CounterOf(counters, b) >= FILES_PER_DIR

Places(p) == pc[p] = "l_place" /\ pc'[p] = "l_write"

OnlyIncremented(dir) ==
    /\ CounterOf(directoryCounter', dir) = CounterOf(directoryCounter, dir) + 1
    /\ \A d \in (DOMAIN directoryCounter \cup DOMAIN directoryCounter') \ {dir} :
          CounterOf(directoryCounter', d) = CounterOf(directoryCounter, d)

C26_AllFullFallsThrough ==
    [][\A p \in Procs :
          LET base == BasePath(loc[p].assetID)
          IN  (/\ Places(p)
               /\ CounterOf(directoryCounter, base) >= FILES_PER_DIR
               /\ AllBucketsFull(directoryCounter, base)) =>
                  /\ loc'[p].dir = base
                  /\ directoryCounter'[base] = CounterOf(directoryCounter, base) + 1
                  /\ directoryCounter'[base] > FILES_PER_DIR
                  /\ \A b \in BucketsOf(base) :
                        CounterOf(directoryCounter', b)
                            = CounterOf(directoryCounter, b)]_vars

\* A placement has fallen through to the full base shard.
C26_Witness ==
    \E p \in Procs :
        /\ pc[p] = "l_write"
        /\ ~IsBucket(loc[p].dir)
        /\ directoryCounter[loc[p].dir] > FILES_PER_DIR
        /\ AllBucketsFull(directoryCounter, loc[p].dir)

\* ------------------------------------------------------------------- C27
\* The positions at which a request is inside the critical section.
InCriticalSection(p) == pc[p] \in {"l_place", "l_dec"}

\* C27: the holder of the counter mutex is always inside a critical section
\* that only reads and updates counters: no step taken while holding or
\* acquiring the mutex touches the catalog, the files or the backend, and
\* the mutex is free whenever no request is inside a critical section.
C27_MutexOnlyAroundCounters ==
    /\ [](\A p \in Procs : mu = p => InCriticalSection(p))
    /\ []((\A p \in Procs : ~InCriticalSection(p)) => mu = NoHolder)
    /\ [][\A p \in Procs :
              (pc'[p] # pc[p] /\ (mu = p \/ mu' = p)) =>
                  UNCHANGED <<catalog, files, backend, cache>>]_vars

\* One request holds the mutex while another is writing or removing a file.
C27_Witness ==
    \E p, q \in Procs :
        /\ mu = p
        /\ pc[q] \in {"l_write", "l_save", "l_rmfile", "l_rmmeta"}

\* ------------------------------------------------------------------- C23
\* The step in which the service has started and its reconciliation pass,
\* whose query did not fail, is over.
Reconciled == /\ \A p \in Procs : pc[p] = "down" /\ pc'[p] = "idle"
              /\ faults' = faults

\* C23: counter-based mode: after the startup reconciliation pass the counter
\* stored under every directory d, the key placement and delete use, is the
\* number of catalog records whose stored path is d.
C23_RestartReproducesCounters ==
    [][Reconciled =>
          \A d \in DOMAIN directoryCounter' \cup {r.storagePath : r \in catalog'} :
              CounterOf(directoryCounter', d)
                  = Cardinality({r \in catalog' : r.storagePath = d})]_vars

\* ------------------------------------------------------------------- C30
\* The key the claim gives a digest.
KeyOfDigest(digest) ==
    IF Len(digest) < 2 THEN digest
    ELSE <<digest[1], digest[2]>> \o <<"/">> \o digest

\* C30: content-addressed placement is a function of the digest alone: an
\* upload puts its object at KeyOfDigest of the digest it computed, a download
\* whose open does not fail serves the object at KeyOfDigest of the record's
\* digest, and a delete removes the object at KeyOfDigest of the record's
\* digest, whatever else the state holds.
C30_KeyIsFunctionOfDigest ==
    [][\A p \in Procs :
          /\ (pc[p] = "u_put" /\ pc'[p] = "u_save") =>
                backend' = Put(backend, KeyOfDigest(loc[p].hash), req[p].body)
          /\ (pc[p] = "d_open" /\ pc'[p] = "done" /\ faults' = faults) =>
                LET key == KeyOfDigest(loc[p].asset.hash)
                    stored == {o \in cache \cup backend : o.key = key}
                IN  IF stored = {} THEN resp'[p].status = 404
                    ELSE /\ resp'[p].status = 200
                         /\ \E o \in stored : resp'[p].bytes = o.data
          /\ (pc[p] = "x_object" /\ pc'[p] = "done") =>
                \/ backend' = backend
                \/ backend' = {o \in backend : o.key # KeyOfDigest(loc[p].asset.hash)}
      ]_vars

\* A record whose digest is shorter than two characters has been served by
\* one request and its object removed by another.
C30_Witness ==
    \E p, q \in Procs :
        /\ Done(p, "download") /\ resp[p].status = 200
        /\ Len(resp[p].asset.hash) < 2
        /\ Done(q, "delete") /\ "remove" \in eff[q]
        /\ req[q].id = req[p].id

\* ------------------------------------------------------------------- C31
\* C31: content-addressed delete of an existing id: once the row is removed
\* the request can only answer success; the step that deals with the object
\* answers 200 whether the object was there, was missing or could not be
\* removed, leaves the catalog alone and adds nothing to the backend; the
\* row does not come back.
C31_DeleteSucceedsAfterRowRemoval ==
    /\ [](\A p \in Procs :
             (mode = "cas" /\ req[p].op = "delete" /\ "deleteRow" \in eff[p]) =>
                 /\ pc[p] \in {"x_object", "done"}
                 /\ pc[p] = "done" => resp[p].status = 200
                 /\ ~\E r \in catalog : r.id = req[p].id)
    /\ [][\A p \in Procs :
             (pc[p] = "x_object" /\ pc'[p] = "done") =>
                 /\ resp'[p].status = 200
                 /\ catalog' = catalog
                 /\ backend' \subseteq backend]_vars

\* A delete has answered success although the removal of the object failed:
\* the row is gone and the object is still in the backend.
C31_Witness ==
    \E p \in Procs :
        /\ mode = "cas"
        /\ Done(p, "delete")
        /\ {"deleteRow", "fault"} \subseteq eff[p]
        /\ resp[p].status = 200
        /\ \E o \in backend : o.key = getStoragePath(loc[p].asset.hash)
        /\ ~\E r \in catalog : r.hash = loc[p].asset.hash

\* ------------------------------------------------------------------- C32
\* C32: counter-based mode: no directory counter is ever negative.
C32_CountersNeverNegative ==
    \A d \in DOMAIN directoryCounter : directoryCounter[d] >= 0

\* Two deletes of the same id have both succeeded and the counter of the
\* record's directory, decremented once, is at zero.
C32_Witness ==
    \E p, q \in Procs :
        /\ p # q
        /\ Done(p, "delete") /\ resp[p].status = 200
        /\ Done(q, "delete") /\ resp[q].status = 200
        /\ req[p].id = req[q].id
        /\ loc[p].asset.storagePath \in DOMAIN directoryCounter
        /\ directoryCounter[loc[p].asset.storagePath] = 0

\* A delete has succeeded on a record whose directory has no counter.
C32_NoEntryReached ==
    \E p \in Procs :
        /\ Done(p, "delete") /\ resp[p].status = 200
        /\ loc[p].asset.storagePath \notin DOMAIN directoryCounter

\* ------------------------------------------------------------------- C33
\* C33: every list response holds at most max(0, total - offset) records,
\* for the total it reports.
C33_PageWithinReportedTotal ==
    \A p \in Procs :
        (Done(p, "list") /\ resp[p].status = 200) =>
            Len(resp[p].assets)
                <= (IF resp[p].total > resp[p].offset
                    THEN resp[p].total - resp[p].offset ELSE 0)

\* ------------------------------------------------------------------- C34
\* C34: counter-based upload never deduplicates: an upload that does not fail
\* answers 201 with a record of the id it drew, never an existing record;
\* the step that commits it adds exactly that record, under an id no record
\* holds, whatever digests are recorded, and the file named after the id, in
\* the record's directory, holds the body and is no other record's file.
C34_LegacyNeverDeduplicates ==
    /\ [](\A p \in Procs :
             (/\ mode = "counter" /\ Done(p, "upload") /\ Admitted(p)
              /\ resp[p].status # 500) =>
                 /\ resp[p].status = 201
                 /\ ~resp[p].deduped
                 /\ resp[p].asset.id = loc[p].assetID)
    /\ [][\A p \in Procs :
             (/\ mode = "counter" /\ pc[p] = "l_save" /\ pc'[p] = "done"
              /\ resp'[p].status # 500) =>
                 LET a == resp'[p].asset
                 IN  /\ ~\E r \in catalog : r.id = a.id
                     /\ catalog' = catalog \cup {a}
                     /\ Cardinality(catalog') = Cardinality(catalog) + 1
                     /\ a.fileName[1] = a.id
                     /\ \E f \in files' : /\ f.dir = a.storagePath
                                          /\ f.name = a.fileName
                                          /\ f.data = req[p].body
                     /\ ~\E r \in catalog : /\ r.storagePath = a.storagePath
                                            /\ r.fileName = a.fileName]_vars

\* Two uploads of the same bytes have both succeeded: two records with one
\* digest, each with its own file.
C34_Witness ==
    /\ mode = "counter"
    /\ \E p \in Procs :
          /\ Done(p, "upload") /\ resp[p].status = 201
          /\ \E r \in catalog :
                /\ r.id # resp[p].asset.id
                /\ r.hash = resp[p].asset.hash
                /\ resp[p].asset \in catalog
                /\ Stat(files, r.storagePath, r.fileName) # {}
                /\ Stat(files, resp[p].asset.storagePath, resp[p].asset.fileName) # {}
                /\ Stat(files, r.storagePath, r.fileName)
                       # Stat(files, resp[p].asset.storagePath, resp[p].asset.fileName)

\* ------------------------------------------------------------------- C35
\* The positions of a content-addressed upload between the creation of its
\* temp file and its return.
Spooling(p) == mode = "cas" /\ pc[p] \in {"u_lookup", "u_put", "u_save"}

\* C35: content-addressed upload: a temp file exists only while the upload
\* that created it is still in its handler; an upload in its handler has
\* exactly its own, holding the body it read; whichever way the handler
\* returned, its temp file is gone.
C35_SpoolRemovedOnEveryExit ==
    /\ \A f \in tempFiles : Spooling(f.owner)
    /\ \A p \in Procs :
          Spooling(p) =>
              {f \in tempFiles : f.owner = p} = {[owner |-> p, data |-> req[p].body]}

\* An upload has returned 500 after its put (the insert failed) and has no
\* temp file left, while another upload still holds its own.
C35_Witness ==
    \E p, q \in Procs :
        /\ mode = "cas"
        /\ Done(p, "upload") /\ resp[p].status = 500
        /\ {"put", "fault"} \subseteq eff[p]
        /\ pc[q] = "u_put"
        /\ tempFiles = {[owner |-> q, data |-> req[q].body]}

====
